---- MODULE Spec2Model ----
(***************************************************************************)
(* Model of PDFProcessingTool._run (backend/app/tools/pdf_tool.py): the    *)
(* per-page extraction-mode selection and the assembly of the document.    *)
(*                                                                         *)
(* Strings are sequences.  Text that comes from the document or from the   *)
(* OCR engine is held one character per element, so that len() and         *)
(* strip() are computed as Python computes them.  The literals of the      *)
(* code's f-strings are held as one element each ("chunks"); file names    *)
(* are held one character per element.                                     *)
(*                                                                         *)
(* Spec       one run of _run                                              *)
(* SpecNames  the file names of two images of one document                 *)
(* SpecImages one call of _extract_images_with_pymupdf, image by image     *)
(* SpecConv   two overlapping requests to the service (backend/app/main.py)*)
(* SpecClassify  one request from the crew's answer to the response       *)
(***************************************************************************)
EXTENDS Integers, Sequences, FiniteSets, TLC

\* ---------------------------------------------------------------- bounds
MaxPages == 2

\* ------------------------------------------------------ program constants
MIN_TEXT_LENGTH_FOR_NO_OCR == 50

\* ------------------------------------------------------- string helpers
Whitespace == {" ", "\n", "\t", "\r"}

Rep(c, n) == [k \in 1..n |-> c]

RECURSIVE LStrip(_)
LStrip(s) ==
    IF s = <<>> THEN <<>>
    ELSE IF Head(s) \in Whitespace THEN LStrip(Tail(s)) ELSE s

RECURSIVE RStrip(_)
RStrip(s) ==
    IF s = <<>> THEN <<>>
    ELSE IF s[Len(s)] \in Whitespace THEN RStrip(SubSeq(s, 1, Len(s) - 1)) ELSE s

\* str.strip()
Strip(s) == RStrip(LStrip(s))

\* str(n) for a non-negative integer
Digit(d) == CASE d = 0 -> "0" [] d = 1 -> "1" [] d = 2 -> "2" [] d = 3 -> "3"
              [] d = 4 -> "4" [] d = 5 -> "5" [] d = 6 -> "6" [] d = 7 -> "7"
              [] d = 8 -> "8" [] d = 9 -> "9"

RECURSIVE Str(_)
Str(n) == IF n < 10 THEN <<Digit(n)>> ELSE Str(n \div 10) \o <<Digit(n % 10)>>

\* sep.join(parts)
RECURSIVE Join(_, _)
Join(sep, parts) ==
    IF parts = <<>> THEN <<>>
    ELSE IF Len(parts) = 1 THEN parts[1]
    ELSE parts[1] \o sep \o Join(sep, Tail(parts))

\* filter(None, parts): the non-empty strings of parts, in order
FilterNone(parts) == SelectSeq(parts, LAMBDA p : p # <<>>)

\* needle in haystack, for a needle that is one literal of the code
Contains(haystack, needle) == \E k \in 1..Len(haystack) : haystack[k] = needle

\* ------------------------------------------- what the environment returns
\* pdf_file_path, os.path.splitext(os.path.basename(..))[0], and the
\* static_images_url_path_param the tool was constructed with
pdf_file_path == <<"/uploads/", "d", "o", "c", ".pdf">>
pdf_filename_base == <<"d", "o", "c">>
static_images_url_path == <<"/static/images">>

\* str(e) of an exception raised by one of the libraries
ExcMsg == <<"boom">>

\* the raw text a page's text layer can yield
DirectTexts ==
    { <<>>,
      <<"\n">>,
      Rep("a", MIN_TEXT_LENGTH_FOR_NO_OCR - 1),
      Rep("a", MIN_TEXT_LENGTH_FOR_NO_OCR - 1) \o <<"\n">>,
      <<" ">> \o Rep("a", MIN_TEXT_LENGTH_FOR_NO_OCR) \o <<"\n">> }

\* the raw text pytesseract.image_to_string can return
OcrTexts == { <<>>, <<" ", "b", "\n">> }

\* str(pe) of the exceptions pdfinfo_from_path can raise
PopplerMsgs ==
    { <<"Unable to get page count", ". Is poppler installed and in PATH?">>,
      <<"No output received from Poppler">>,
      <<"Run poppler timeout.">> }

\* force_ocr_pages as the caller can pass it (None is replaced by [])
ForcePageLists == { <<>>, <<0>> }

\* what one call of the image extractor meets: the document cannot be
\* opened / the page cannot be loaded / enumeration fails (page_fail), or
\* the page lists some images, each of which is extracted and saved ("ok"),
\* raises inside the inner try block ("fail"), or is written but not found
\* by the os.path.exists of line 95 ("missing")
ImageOutcomes == {"ok", "fail", "missing"}

ImageListings == { <<>>, <<"fail", "missing", "ok">> }

ImageMeets ==
    { [page_fail |-> TRUE, listing |-> <<>>] } \cup
    { [page_fail |-> FALSE, listing |-> l] : l \in ImageListings }

\* ------------------------------------------------------------------ state
VARIABLES
    pc,                          \* position in _run
    fileExists,                  \* os.path.exists(pdf_file_path)
    force_ocr_all_pages,         \* argument
    force_ocr_pages,             \* argument
    n_pages,                     \* len(pdf)
    i,                           \* loop variable of the page loop
    extracted_text_direct,       \* raw direct text of page i
    page_text_content,
    perform_ocr_on_this_page,
    page_content_parts,
    image_links,
    full_document_content_parts,
    result,                      \* the value _run returns
    returned,                    \* which return statement produced it
    imgDir,                      \* file names in the image output directory
    libOpened,                   \* libraries that have opened the document
    popplerMsg,                  \* str(pe) if pdfinfo_from_path raised, else empty
    trace,                       \* calls made for the current page
    nm,                          \* file-name computation (SpecNames)
    ex,                          \* one call of _extract_images_with_pymupdf (SpecImages)
    conv,                        \* the conversion requests (SpecConv)
    disk,                        \* files in the service's directories (SpecConv)
    environ,                     \* os.environ["GEMINI_API_KEY"] (SpecConv)
    hist,                        \* what the requests did to disk and environ (SpecConv)
    cl                           \* one request from the crew's answer on (SpecClassify)

\* the variables of one run of _run
runVars == << pc, fileExists, force_ocr_all_pages, force_ocr_pages, n_pages, i,
           extracted_text_direct, page_text_content, perform_ocr_on_this_page,
           page_content_parts, image_links, full_document_content_parts,
           result, returned, imgDir, libOpened, popplerMsg, trace >>

\* the variables of the other specifications
auxVars == << nm, ex, conv, disk, environ, hist, cl >>

vars == << runVars, auxVars >>

\* the value of a variable in a specification that does not use it
Unused == <<>>

AuxUnused ==
    /\ nm = Unused
    /\ ex = Unused
    /\ conv = Unused
    /\ disk = Unused
    /\ environ = Unused
    /\ hist = Unused
    /\ cl = Unused

\* the image output directory is shared and outlives a run: what an earlier
\* run left there
InitialDir ==
    { <<"o", "l", "d", "_", "p", "a", "g", "e", "1", "_", "i", "m", "g", "1",
        ".", "p", "n", "g">> }

NoTrace ==
    [ textCalls   |-> 0,          \* direct text extractions
      textRaised  |-> FALSE,      \* ... that raised
      objQuery    |-> "notcalled",\* textpage.get_text_objects(): ok / unsupported
      objCount    |-> 0,          \* len(text_objects) when the query answered
      rasterCalls |-> 0,          \* convert_from_path
      ocrCalls    |-> 0,          \* pytesseract.image_to_string
      ocrOutcome  |-> "none",
      ocrRaw      |-> <<>>,       \* what image_to_string returned
      imgCalls    |-> 0,          \* _extract_images_with_pymupdf
      imgFailed   |-> FALSE,      \* ... that met a page-level or image-level failure
      imgPageFail |-> FALSE ]     \* ... that met a page-level failure

Init ==
    /\ pc = "start"
    /\ fileExists \in BOOLEAN
    /\ force_ocr_all_pages \in BOOLEAN
    /\ force_ocr_pages \in ForcePageLists
    /\ n_pages = 0
    /\ i = 0
    /\ extracted_text_direct = <<>>
    /\ page_text_content = <<>>
    /\ perform_ocr_on_this_page = FALSE
    /\ page_content_parts = <<>>
    /\ image_links = <<>>
    /\ full_document_content_parts = <<>>
    /\ result = <<>>
    /\ returned = "none"
    /\ imgDir = InitialDir
    /\ libOpened = {}
    /\ popplerMsg = <<>>
    /\ trace = NoTrace
    /\ AuxUnused

\* ------------------------------------------------ pure parts of the code
Range(q) == { q[k] : k \in 1..Len(q) }

\* variant of Minimal: the threshold compared with <= instead of <
Minimal_Inclusive(text) == Len(text) <= MIN_TEXT_LENGTH_FOR_NO_OCR

\* lines 183 and 208: len(page_text_content) < self.MIN_TEXT_LENGTH_FOR_NO_OCR
Minimal(text) == Len(text) < MIN_TEXT_LENGTH_FOR_NO_OCR

\* step 2 of the page loop: is the text-object query reached at all
QueryReached(force_all, force_pages, idx, text) ==
    /\ ~force_all
    /\ ~(force_pages # <<>> /\ idx \in Range(force_pages))
    /\ Minimal(text)

\* variant of ShouldOCR: the force_ocr_pages branch left out
ShouldOCR_NoPageList(force_all, force_pages, idx, text, query, count) ==
    IF force_all THEN TRUE
    ELSE IF Minimal(text)
         THEN IF query = "ok" THEN count > 0 ELSE text = <<>>
    ELSE FALSE

\* variant of ShouldOCR: len(text_objects) >= 0 instead of > 0
ShouldOCR_AnyCount(force_all, force_pages, idx, text, query, count) ==
    IF force_all THEN TRUE
    ELSE IF force_pages # <<>> /\ idx \in Range(force_pages) THEN TRUE
    ELSE IF Minimal(text)
         THEN IF query = "ok" THEN count >= 0 ELSE text = <<>>
    ELSE FALSE

\* step 2 of the page loop: perform_ocr_on_this_page.  text is the stripped
\* direct text; query is "ok" (count objects reported) or "unsupported"
\* (AttributeError)
ShouldOCR(force_all, force_pages, idx, text, query, count) ==
    IF force_all THEN TRUE
    ELSE IF force_pages # <<>> /\ idx \in Range(force_pages) THEN TRUE
    ELSE IF Minimal(text)
         THEN IF query = "ok" THEN count > 0 ELSE text = <<>>
    ELSE FALSE

OcrSeparator == <<"\n\n--- OCR Text ---\n">>

\* variant of MergeOCR: the OCR text always appended
MergeOCR_Append(text, ocr_raw) ==
    LET ocr_text == Strip(ocr_raw) IN
    IF ocr_text # <<>> THEN text \o OcrSeparator \o ocr_text ELSE text

\* variant of MergeOCR: the OCR text always replaces the direct text
MergeOCR_Replace(text, ocr_raw) ==
    LET ocr_text == Strip(ocr_raw) IN
    IF ocr_text # <<>> THEN ocr_text ELSE text

\* step 3, the branch in which image_to_string returned ocr_raw
MergeOCR(text, ocr_raw) ==
    LET ocr_text == Strip(ocr_raw) IN
    IF ocr_text # <<>>
    THEN IF Minimal(text)
         THEN ocr_text
         ELSE text \o OcrSeparator \o ocr_text
    ELSE text

NoImageNote(idx) ==
    <<"\n[OCR attempted but no image returned for page ">> \o Str(idx + 1) \o <<"]">>

OcrErrorNote(idx, e) ==
    <<"\n[OCR error on page ">> \o Str(idx + 1) \o <<": ">> \o e \o <<"]">>

\* variant of AfterOCR: the error note replaces the text obtained so far
AfterOCR_ErrorDropsText(text, idx, outcome, ocr_raw) ==
    CASE outcome = "ocr_ok"       -> MergeOCR(text, ocr_raw)
      [] outcome = "no_image"     -> text \o NoImageNote(idx)
      [] outcome = "raster_raise" -> OcrErrorNote(idx, ExcMsg)
      [] outcome = "ocr_raise"    -> OcrErrorNote(idx, ExcMsg)

\* variant of AfterOCR: a rasterizer that returns no image leaves no note
AfterOCR_NoImageSilent(text, idx, outcome, ocr_raw) ==
    CASE outcome = "ocr_ok"       -> MergeOCR(text, ocr_raw)
      [] outcome = "no_image"     -> text
      [] outcome = "raster_raise" -> text \o OcrErrorNote(idx, ExcMsg)
      [] outcome = "ocr_raise"    -> text \o OcrErrorNote(idx, ExcMsg)

\* step 3 as a whole: page_text_content after the OCR attempt
AfterOCR(text, idx, outcome, ocr_raw) ==
    CASE outcome = "ocr_ok"       -> MergeOCR(text, ocr_raw)
      [] outcome = "no_image"     -> text \o NoImageNote(idx)
      [] outcome = "raster_raise" -> text \o OcrErrorNote(idx, ExcMsg)
      [] outcome = "ocr_raise"    -> text \o OcrErrorNote(idx, ExcMsg)

\* ---- _extract_images_with_pymupdf
ImageExt == <<"p", "n", "g">>

\* variant of ImageFilename: the image index left out of the name
ImageFilename_NoImageIndex(base, idx, image_index, ext) ==
    base \o <<"_", "p", "a", "g", "e">> \o Str(idx + 1)
         \o <<"_", "i", "m", "g">> \o <<".">> \o ext

\* line 82, one character per element
ImageFilename(base, idx, image_index, ext) ==
    base \o <<"_", "p", "a", "g", "e">> \o Str(idx + 1)
         \o <<"_", "i", "m", "g">> \o Str(image_index) \o <<".">> \o ext

MarkdownLink(base, idx, image_index, ext) ==
    <<"\n\n![Page ">> \o Str(idx + 1) \o <<" Image ">> \o Str(image_index)
        \o <<"](">> \o static_images_url_path \o <<"/">>
        \o ImageFilename(base, idx, image_index, ext) \o <<")\n">>

ImageErrorNote(idx, image_index, e) ==
    <<"\n[Error processing image ">> \o Str(image_index) \o <<" on page ">>
        \o Str(idx + 1) \o <<": ">> \o e \o <<"]\n">>

PageImageErrorNote(idx, e) ==
    <<"\n[Error in image extraction for page ">> \o Str(idx + 1) \o <<": ">>
        \o e \o <<"]\n">>

\* variant of ExtractedLinks: a page-level failure is swallowed
ExtractedLinks_FailureSilent(base, idx, met) ==
    IF met.page_fail THEN <<>>
    ELSE FilterNone([ m \in 1..Len(met.listing) |->
             CASE met.listing[m] = "ok" -> MarkdownLink(base, idx, m, ImageExt)
               [] met.listing[m] = "fail" -> ImageErrorNote(idx, m, ExcMsg)
               [] met.listing[m] = "missing" -> <<>> ])

\* the list the extractor returns; met is what the call meets (ImageMeets);
\* an image that is "missing" takes the continue of line 100 and adds nothing
ExtractedLinks(base, idx, met) ==
    IF met.page_fail THEN << PageImageErrorNote(idx, ExcMsg) >>
    ELSE FilterNone([ m \in 1..Len(met.listing) |->
             CASE met.listing[m] = "ok" -> MarkdownLink(base, idx, m, ImageExt)
               [] met.listing[m] = "fail" -> ImageErrorNote(idx, m, ExcMsg)
               [] met.listing[m] = "missing" -> <<>> ])

\* the files the extractor writes
ExtractedFiles(base, idx, met) ==
    IF met.page_fail THEN {}
    ELSE { ImageFilename(base, idx, m, ImageExt) :
             m \in { k \in 1..Len(met.listing) : met.listing[k] = "ok" } }

\* ---- assembly
PageDelimiter(idx) == <<"\n--- Page ">> \o Str(idx + 1) \o <<" ---">>

BlankMarker == <<" (Blank or no extractable content)">>

\* variant of PageBlock: a page without content is left out
PageBlock_SkipBlank(idx, parts) ==
    IF parts # <<>>
    THEN PageDelimiter(idx) \o <<"\n">> \o Join(<<"\n">>, FilterNone(parts))
    ELSE <<>>

\* variant of PageBlock: the parts joined without the newline
PageBlock_NoNewline(idx, parts) ==
    IF parts # <<>>
    THEN PageDelimiter(idx) \o <<"\n">> \o Join(<<>>, FilterNone(parts))
    ELSE PageDelimiter(idx) \o BlankMarker

\* lines 228-231: the block of page idx
PageBlock(idx, parts) ==
    IF parts # <<>>
    THEN PageDelimiter(idx) \o <<"\n">> \o Join(<<"\n">>, FilterNone(parts))
    ELSE PageDelimiter(idx) \o BlankMarker

\* line 233
Assemble(blocks) == Join(<<"\n">>, blocks)

NotFoundError ==
    <<"Error", ":", " PDF file not found at the specified path: ">> \o pdf_file_path

PopplerError(pe) ==
    <<"Error", ":", " Poppler (PDF rendering utility) not found or not working correctly. Please ensure it's installed and in your system's PATH. Original error: ">> \o pe

ProcessingError(e) == <<"Error", " processing PDF: ">> \o e

\* variant of PopplerFatal: only the first message is recognised
PopplerFatal_FirstOnly(pe) == Contains(pe, "Unable to get page count")

\* line 152
PopplerFatal(pe) ==
    \/ Contains(pe, "Unable to get page count")
    \/ Contains(pe, "No output received from Poppler")

\* ---------------------------------------------------------------- actions
\* variant of Abort: what was assembled so far is returned with the error
Abort_WithPartial(e) ==
    /\ result' = Assemble(full_document_content_parts) \o ProcessingError(e)
    /\ returned' = "exception"
    /\ pc' = "done"

\* lines 235-239: an exception that reaches the outer except clause
Abort(e) ==
    /\ result' = ProcessingError(e)
    /\ returned' = "exception"
    /\ pc' = "done"

\* variant of ReturnNotFound: the path is checked only after the output
\* directory has been probed and the document opened
ReturnNotFound_Late ==
    /\ pc = "start"
    /\ ~fileExists
    /\ result' = NotFoundError
    /\ returned' = "not_found"
    /\ pc' = "done"
    /\ imgDir' = imgDir \cup { <<"test.txt">> }
    /\ libOpened' = libOpened \cup {"pdfium"}
    /\ UNCHANGED << fileExists, force_ocr_all_pages, force_ocr_pages, n_pages, i,
                    extracted_text_direct, page_text_content,
                    perform_ocr_on_this_page, page_content_parts, image_links,
                    full_document_content_parts, popplerMsg, trace >>
    /\ UNCHANGED auxVars

\* lines 131-134
ReturnNotFound ==
    /\ pc = "start"
    /\ ~fileExists
    /\ result' = NotFoundError
    /\ returned' = "not_found"
    /\ pc' = "done"
    /\ UNCHANGED << fileExists, force_ocr_all_pages, force_ocr_pages, n_pages, i,
                    extracted_text_direct, page_text_content,
                    perform_ocr_on_this_page, page_content_parts, image_links,
                    full_document_content_parts, imgDir, libOpened,
                    popplerMsg, trace >>
    /\ UNCHANGED auxVars

\* lines 136-145
Begin ==
    /\ pc = "start"
    /\ fileExists
    /\ full_document_content_parts' = <<>>
    /\ pc' = "poppler"
    /\ UNCHANGED << fileExists, force_ocr_all_pages, force_ocr_pages, n_pages, i,
                    extracted_text_direct, page_text_content,
                    perform_ocr_on_this_page, page_content_parts, image_links,
                    result, returned, imgDir, libOpened, popplerMsg, trace >>
    /\ UNCHANGED auxVars

\* lines 148-149: pdfinfo_from_path succeeds
PopplerCheckOk ==
    /\ pc = "poppler"
    /\ pc' = "open"
    /\ UNCHANGED << fileExists, force_ocr_all_pages, force_ocr_pages, n_pages, i,
                    extracted_text_direct, page_text_content,
                    perform_ocr_on_this_page, page_content_parts, image_links,
                    full_document_content_parts, result, returned, imgDir,
                    libOpened, popplerMsg, trace >>
    /\ UNCHANGED auxVars

\* lines 150-153: pdfinfo_from_path raises pe
PopplerCheckRaises ==
    /\ pc = "poppler"
    /\ \E pe \in PopplerMsgs :
         /\ popplerMsg' = pe
         /\ IF PopplerFatal(pe)
            THEN /\ result' = PopplerError(pe)
                 /\ returned' = "poppler"
                 /\ pc' = "done"
            ELSE /\ pc' = "open"
                 /\ UNCHANGED << result, returned >>
    /\ UNCHANGED << fileExists, force_ocr_all_pages, force_ocr_pages, n_pages, i,
                    extracted_text_direct, page_text_content,
                    perform_ocr_on_this_page, page_content_parts, image_links,
                    full_document_content_parts, imgDir, libOpened, trace >>
    /\ UNCHANGED auxVars

\* lines 155-156
OpenDocument ==
    /\ pc = "open"
    /\ \E n \in 0..MaxPages : n_pages' = n
    /\ i' = 0
    /\ libOpened' = libOpened \cup {"pdfium"}
    /\ pc' = "loop"
    /\ UNCHANGED << fileExists, force_ocr_all_pages, force_ocr_pages,
                    extracted_text_direct, page_text_content,
                    perform_ocr_on_this_page, page_content_parts, image_links,
                    full_document_content_parts, result, returned, imgDir,
                    popplerMsg, trace >>
    /\ UNCHANGED auxVars

\* line 155: pdfium.PdfDocument raises
OpenDocumentRaises ==
    /\ pc = "open"
    /\ Abort(ExcMsg)
    /\ UNCHANGED << fileExists, force_ocr_all_pages, force_ocr_pages, n_pages, i,
                    extracted_text_direct, page_text_content,
                    perform_ocr_on_this_page, page_content_parts, image_links,
                    full_document_content_parts, imgDir, libOpened,
                    popplerMsg, trace >>
    /\ UNCHANGED auxVars

\* lines 158-174: the loop takes page i and extracts its direct text
\* (get_text_bounded, or get_text_range, or str(textpage), whichever the
\* library supports)
ExtractText ==
    /\ pc = "loop"
    /\ i < n_pages
    /\ \E t \in DirectTexts :
         /\ extracted_text_direct' = t
         /\ page_text_content' = Strip(t)
    /\ page_content_parts' = <<>>
    /\ image_links' = <<>>
    /\ perform_ocr_on_this_page' = FALSE
    /\ trace' = [NoTrace EXCEPT !.textCalls = 1]
    /\ pc' = "decide"
    /\ UNCHANGED << fileExists, force_ocr_all_pages, force_ocr_pages, n_pages, i,
                    full_document_content_parts, result, returned, imgDir,
                    libOpened, popplerMsg >>
    /\ UNCHANGED auxVars

\* lines 164-167: get_page, get_textpage or the text call raises something
\* other than AttributeError
ExtractTextRaises ==
    /\ pc = "loop"
    /\ i < n_pages
    /\ trace' = [NoTrace EXCEPT !.textCalls = 1, !.textRaised = TRUE]
    /\ Abort(ExcMsg)
    /\ UNCHANGED << fileExists, force_ocr_all_pages, force_ocr_pages, n_pages, i,
                    extracted_text_direct, page_text_content,
                    perform_ocr_on_this_page, page_content_parts, image_links,
                    full_document_content_parts, imgDir, libOpened,
                    popplerMsg >>
    /\ UNCHANGED auxVars

\* lines 176-196
DecideOCR ==
    /\ pc = "decide"
    /\ LET reached == QueryReached(force_ocr_all_pages, force_ocr_pages, i,
                                   page_text_content)
       IN \E query \in {"ok", "unsupported"}, count \in 0..1 :
            /\ reached \/ (query = "ok" /\ count = 0)
            /\ query = "unsupported" => count = 0
            /\ perform_ocr_on_this_page' =
                 ShouldOCR(force_ocr_all_pages, force_ocr_pages, i,
                           page_text_content, query, count)
            /\ trace' = IF reached
                        THEN [trace EXCEPT !.objQuery = query, !.objCount = count]
                        ELSE trace
    /\ pc' = "ocr"
    /\ UNCHANGED << fileExists, force_ocr_all_pages, force_ocr_pages, n_pages, i,
                    extracted_text_direct, page_text_content, page_content_parts,
                    image_links, full_document_content_parts, result, returned,
                    imgDir, libOpened, popplerMsg >>
    /\ UNCHANGED auxVars

\* line 185: get_text_objects raises something other than AttributeError
DecideOCRRaises ==
    /\ pc = "decide"
    /\ QueryReached(force_ocr_all_pages, force_ocr_pages, i, page_text_content)
    /\ trace' = [trace EXCEPT !.objQuery = "raised"]
    /\ Abort(ExcMsg)
    /\ UNCHANGED << fileExists, force_ocr_all_pages, force_ocr_pages, n_pages, i,
                    extracted_text_direct, page_text_content,
                    perform_ocr_on_this_page, page_content_parts, image_links,
                    full_document_content_parts, imgDir, libOpened,
                    popplerMsg >>
    /\ UNCHANGED auxVars

\* lines 199, 221-222 when no OCR was decided
SkipOCR ==
    /\ pc = "ocr"
    /\ ~perform_ocr_on_this_page
    /\ page_content_parts' =
         IF page_text_content # <<>> THEN << page_text_content >> ELSE <<>>
    /\ pc' = "images"
    /\ UNCHANGED << fileExists, force_ocr_all_pages, force_ocr_pages, n_pages, i,
                    extracted_text_direct, page_text_content,
                    perform_ocr_on_this_page, image_links,
                    full_document_content_parts, result, returned, imgDir,
                    libOpened, popplerMsg, trace >>
    /\ UNCHANGED auxVars

\* lines 199-222 when OCR was decided
RunOCR ==
    /\ pc = "ocr"
    /\ perform_ocr_on_this_page
    /\ \E outcome \in {"raster_raise", "no_image", "ocr_raise", "ocr_ok"},
          ocr_raw \in OcrTexts :
         /\ outcome # "ocr_ok" => ocr_raw = <<>>
         /\ LET text == AfterOCR(page_text_content, i, outcome, ocr_raw) IN
              /\ page_text_content' = text
              /\ page_content_parts' = IF text # <<>> THEN << text >> ELSE <<>>
         /\ trace' = [trace EXCEPT
                        !.rasterCalls = @ + 1,
                        !.ocrCalls = IF outcome \in {"ocr_raise", "ocr_ok"} THEN @ + 1 ELSE @,
                        !.ocrOutcome = outcome,
                        !.ocrRaw = ocr_raw]
    /\ pc' = "images"
    /\ UNCHANGED << fileExists, force_ocr_all_pages, force_ocr_pages, n_pages, i,
                    extracted_text_direct, perform_ocr_on_this_page, image_links,
                    full_document_content_parts, result, returned, imgDir,
                    libOpened, popplerMsg >>
    /\ UNCHANGED auxVars

\* lines 224-231, and the loop's step to the next page
ExtractImages ==
    /\ pc = "images"
    /\ \E met \in ImageMeets :
         LET links == ExtractedLinks(pdf_filename_base, i, met)
             parts == page_content_parts \o links
         IN /\ trace' = [trace EXCEPT
                           !.imgCalls = @ + 1,
                           !.imgFailed = met.page_fail \/ "fail" \in Range(met.listing),
                           !.imgPageFail = met.page_fail]
            /\ image_links' = links
            /\ page_content_parts' = parts
            /\ imgDir' = imgDir \cup ExtractedFiles(pdf_filename_base, i, met)
            /\ full_document_content_parts' =
                 Append(full_document_content_parts, PageBlock(i, parts))
    /\ libOpened' = libOpened \cup {"fitz"}
    /\ i' = i + 1
    /\ pc' = "loop"
    /\ UNCHANGED << fileExists, force_ocr_all_pages, force_ocr_pages, n_pages,
                    extracted_text_direct, page_text_content,
                    perform_ocr_on_this_page, result, returned, popplerMsg >>
    /\ UNCHANGED auxVars

\* line 233
ReturnAssembled ==
    /\ pc = "loop"
    /\ i = n_pages
    /\ result' = Assemble(full_document_content_parts)
    /\ returned' = "assembled"
    /\ pc' = "done"
    /\ UNCHANGED << fileExists, force_ocr_all_pages, force_ocr_pages, n_pages, i,
                    extracted_text_direct, page_text_content,
                    perform_ocr_on_this_page, page_content_parts, image_links,
                    full_document_content_parts, imgDir, libOpened,
                    popplerMsg, trace >>
    /\ UNCHANGED auxVars

Next ==
    \/ ReturnNotFound
    \/ Begin
    \/ PopplerCheckOk
    \/ PopplerCheckRaises
    \/ OpenDocument
    \/ OpenDocumentRaises
    \/ ExtractText
    \/ ExtractTextRaises
    \/ DecideOCR
    \/ DecideOCRRaises
    \/ SkipOCR
    \/ RunOCR
    \/ ExtractImages
    \/ ReturnAssembled

Spec == Init /\ [][Next]_vars

\* ------------------------------------------- the other specifications
\* the run variables in a specification that does not run _run
RunUnused ==
    /\ pc = "unused"
    /\ fileExists = FALSE
    /\ force_ocr_all_pages = FALSE
    /\ force_ocr_pages = <<>>
    /\ n_pages = 0
    /\ i = 0
    /\ extracted_text_direct = <<>>
    /\ page_text_content = <<>>
    /\ perform_ocr_on_this_page = FALSE
    /\ page_content_parts = <<>>
    /\ image_links = <<>>
    /\ full_document_content_parts = <<>>
    /\ result = <<>>
    /\ returned = "none"
    /\ imgDir = {}
    /\ libOpened = {}
    /\ popplerMsg = <<>>
    /\ trace = NoTrace

\* ---- SpecNames: the file names of two images of one document
\* page and image numbers go up to MaxNameIndex
MaxNameIndex == 11

\* base_image["ext"]
NameExts == { <<"p", "n", "g">>, <<"j", "p", "e", "g">> }

\* (page_index, image_index, image_ext) of one image: enumerate(..., start=1)
NameInputs ==
    [ page_index : 0..(MaxNameIndex - 1), image_index : 1..MaxNameIndex,
      image_ext : NameExts ]

InitNames ==
    /\ RunUnused
    /\ nm \in [ pc : {"first"}, a : NameInputs, b : NameInputs,
                image_filename_a : {<<>>}, image_filename_b : {<<>>},
                written : {{}}, overwritten : {FALSE} ]
    /\ ex = Unused
    /\ conv = Unused
    /\ disk = Unused
    /\ environ = Unused
    /\ hist = Unused
    /\ cl = Unused

\* lines 82-92 for the first image: name it and write it
NameFirst ==
    /\ nm.pc = "first"
    /\ LET name == ImageFilename(pdf_filename_base, nm.a.page_index,
                                 nm.a.image_index, nm.a.image_ext)
       IN  nm' = [nm EXCEPT !.pc = "second",
                            !.image_filename_a = name,
                            !.written = @ \cup {name}]
    /\ UNCHANGED << runVars, cl, ex, conv, disk, environ, hist >>

\* lines 82-92 for the second image; open(path, "wb") replaces a file of
\* the same name
NameSecond ==
    /\ nm.pc = "second"
    /\ LET name == ImageFilename(pdf_filename_base, nm.b.page_index,
                                 nm.b.image_index, nm.b.image_ext)
       IN  nm' = [nm EXCEPT !.pc = "done",
                            !.image_filename_b = name,
                            !.overwritten = name \in nm.written,
                            !.written = @ \cup {name}]
    /\ UNCHANGED << runVars, cl, ex, conv, disk, environ, hist >>

NextNames ==
    \/ NameFirst
    \/ NameSecond

SpecNames == InitNames /\ [][NextNames]_vars

\* ---- SpecImages: one call of _extract_images_with_pymupdf, step by step
\* len(image_list) goes up to MaxImages
MaxImages == 3

\* the page_index argument
ImagePages == { 0, 1 }

InitImages ==
    /\ RunUnused
    /\ nm = Unused
    /\ ex \in [ pc : {"open"}, page_index : ImagePages, image_list : {0},
                image_index : {0}, attempted : {<<>>}, outcomes : {<<>>},
                markdown_image_links : {<<>>}, saved : {{}},
                page_fail : {FALSE}, closed : {FALSE}, returned : {<<>>} ]
    /\ conv = Unused
    /\ disk = Unused
    /\ environ = Unused
    /\ hist = Unused
    /\ cl = Unused

OtherThanEx == << runVars, cl, nm, conv, disk, environ, hist >>

\* lines 67-69: the document opens, the page loads and lists its images
X_Open ==
    /\ ex.pc = "open"
    /\ \E k \in 0..MaxImages :
         ex' = [ex EXCEPT !.pc = "loop", !.image_list = k]
    /\ UNCHANGED OtherThanEx

\* lines 67-69 raise: the except of lines 116-119 returns one note
X_OpenRaises ==
    /\ ex.pc = "open"
    /\ ex' = [ex EXCEPT !.pc = "returned", !.page_fail = TRUE,
                        !.returned = << PageImageErrorNote(ex.page_index, ExcMsg) >>]
    /\ UNCHANGED OtherThanEx

\* lines 76-106: the next image is extracted, written, found and linked
X_ImageSaved ==
    /\ ex.pc = "loop"
    /\ ex.image_index < ex.image_list
    /\ LET image_index == ex.image_index + 1
       IN  ex' = [ex EXCEPT
                    !.image_index = image_index,
                    !.attempted = Append(@, image_index),
                    !.outcomes = Append(@, "ok"),
                    !.saved = @ \cup { ImageFilename(pdf_filename_base, ex.page_index,
                                                     image_index, ImageExt) },
                    !.markdown_image_links =
                        Append(@, MarkdownLink(pdf_filename_base, ex.page_index,
                                               image_index, ImageExt))]
    /\ UNCHANGED OtherThanEx

\* lines 76-92 raise: the except of lines 108-111 appends a note
X_ImageRaises ==
    /\ ex.pc = "loop"
    /\ ex.image_index < ex.image_list
    /\ LET image_index == ex.image_index + 1
       IN  ex' = [ex EXCEPT
                    !.image_index = image_index,
                    !.attempted = Append(@, image_index),
                    !.outcomes = Append(@, "fail"),
                    !.markdown_image_links =
                        Append(@, ImageErrorNote(ex.page_index, image_index, ExcMsg))]
    /\ UNCHANGED OtherThanEx

\* lines 76-100: the image is written but os.path.exists does not find the
\* file (removed from the shared directory in between): continue
X_ImageMissing ==
    /\ ex.pc = "loop"
    /\ ex.image_index < ex.image_list
    /\ LET image_index == ex.image_index + 1
       IN  ex' = [ex EXCEPT
                    !.image_index = image_index,
                    !.attempted = Append(@, image_index),
                    !.outcomes = Append(@, "missing")]
    /\ UNCHANGED OtherThanEx

\* lines 113-114
X_Return ==
    /\ ex.pc = "loop"
    /\ ex.image_index = ex.image_list
    /\ ex' = [ex EXCEPT !.pc = "returned", !.closed = TRUE,
                        !.returned = ex.markdown_image_links]
    /\ UNCHANGED OtherThanEx

NextImages ==
    \/ X_Open
    \/ X_OpenRaises
    \/ X_ImageSaved
    \/ X_ImageRaises
    \/ X_ImageMissing
    \/ X_Return

SpecImages == InitImages /\ [][NextImages]_vars

\* ---- SpecConv: two requests to POST /api/v1/convert that overlap in time
\* (main.py: convert_pdf_endpoint and process_pdf_with_crew)
Requests == { 1, 2 }

\* the gemini_api_key header of each request
KeyOf(r) == IF r = 1 THEN <<"key-1">> ELSE <<"key-2">>

\* os.environ.get("GEMINI_API_KEY") is None
Absent == <<>>

\* what the server's environment holds before the first request
ServerKeys == { Absent, <<"key-0">> }

\* pdf_file.filename without its ".pdf"; both requests upload the same name
OriginalNames == { <<"d", "o", "c">>, <<"a", " ", "b">> }

\* uuid.uuid4().hex: its first 8 characters and the other 24, as two elements
UuidHeads == { "h1", "h2" }

UuidTails == { "t1", "t2" }

Uuids == { <<h, t>> : h \in UuidHeads, t \in UuidTails }

\* characters that match \w
WordChars ==
    UuidHeads \cup UuidTails \cup
    { "a", "b", "c", "d", "e", "g", "i", "m", "o", "p", "0", "1", "2", "3", "4",
      "5", "6", "7", "8", "9" }

\* re.sub(r'[^\w_.-]', '_', name)
Sanitize(name) ==
    [ k \in 1..Len(name) |->
        IF name[k] \in WordChars \cup {"_", ".", "-"} THEN name[k] ELSE "_" ]

DotPdf == <<".", "p", "d", "f">>

\* os.path.splitext(..)[0] of a name that ends in ".pdf"
SplitextBase(filename) == SubSeq(filename, 1, Len(filename) - Len(DotPdf))

\* lines 229-232
TempPdfFilename(uuid, original_filename) ==
    uuid \o <<"_">> \o Sanitize(SplitextBase(original_filename)) \o DotPdf

\* lines 187-189; hex[:8] is the first element of the uuid
MdFilename(pdf_filename, uuid) ==
    Sanitize(SplitextBase(pdf_filename)) \o <<"_">> \o << uuid[1] >>
        \o <<".", "m", "d">>

\* a path is a directory and a file name
TempPath(name) == << "temp_uploads", name >>

ImagePath(name) == << "images", name >>

MarkdownPath(name) == << "markdown_outputs", name >>

\* pdf_tool.py line 46: the file the tool's constructor writes and removes
ProbePath == ImagePath(<<"t", "e", "s", "t", ".", "t", "x", "t">>)

\* embedded images of the uploaded document (all on its first page)
ConvImageCounts == { 0, 1 }

\* what the crew returns: the Markdown with the image links kept, the
\* Markdown with the links dropped, or a text that starts with "Error:"
CrewOutcomes == { "links_kept", "links_dropped", "error" }

NewRequest ==
    [ pc |-> "recv", temp_pdf_filename |-> <<>>, generated_files_to_clean |-> <<>>,
      current_env_gemini_key |-> Absent, error |-> FALSE, image_urls |-> {},
      md_filename |-> <<>>, status |-> 0 ]

NoHistory ==
    [ env0 |-> Absent, uuids |-> {}, writes |-> {}, removes |-> {},
      filename |-> <<>>, overlapped |-> FALSE ]

InitConv ==
    /\ RunUnused
    /\ nm = Unused
    /\ ex = Unused
    /\ conv = [ r \in Requests |-> NewRequest ]
    /\ cl = Unused
    /\ disk = {}
    /\ environ \in ServerKeys
    /\ \E name \in OriginalNames :
         hist = [NoHistory EXCEPT !.env0 = environ, !.filename = name \o DotPdf]

\* open(path, "w"/"wb") by request r: the file holds what r wrote
WriteFile(files, path, r) ==
    { f \in files : f.path # path } \cup { [path |-> path, by |-> r] }

Exists(files, path) == \E f \in files : f.path = path

RemoveFile(files, path) == { f \in files : f.path # path }

Written(path, r, kind) == [path |-> path, by |-> r, kind |-> kind]

\* who wrote the file that a remove deletes
Removed(files, path, r) ==
    { [path |-> path, by |-> r, of |-> f.by] : f \in { g \in files : g.path = path } }

\* lines 223-227: the request is refused before anything is written
E_Reject(r) ==
    /\ conv[r].pc = "recv"
    /\ conv' = [conv EXCEPT ![r].pc = "done", ![r].status = 400]
    /\ UNCHANGED << runVars, cl, nm, ex, disk, environ, hist >>

\* lines 229-240: name the temporary file, write the upload, list it
E_SaveUpload(r) ==
    /\ conv[r].pc = "recv"
    /\ \E uuid \in Uuids \ hist.uuids :
         LET name == TempPdfFilename(uuid, hist.filename)
         IN  /\ disk' = WriteFile(disk, TempPath(name), r)
             /\ hist' = [hist EXCEPT
                           !.uuids = @ \cup {uuid},
                           !.writes = @ \cup { Written(TempPath(name), r, "upload") }]
             /\ conv' = [conv EXCEPT
                           ![r].pc = "saved",
                           ![r].temp_pdf_filename = name,
                           ![r].generated_files_to_clean = << TempPath(name) >>]
    /\ UNCHANGED << runVars, cl, nm, ex, environ >>

\* lines 229-237 and 266-280: the file is created by open() and the copy of
\* the upload raises before line 240 lists the file; the handler answers
\* 500 and its finally block has nothing to remove
E_SaveUploadFails(r) ==
    /\ conv[r].pc = "recv"
    /\ \E uuid \in Uuids \ hist.uuids :
         LET name == TempPdfFilename(uuid, hist.filename)
         IN  /\ disk' = WriteFile(disk, TempPath(name), r)
             /\ hist' = [hist EXCEPT
                           !.uuids = @ \cup {uuid},
                           !.writes = @ \cup { Written(TempPath(name), r, "upload") }]
             /\ conv' = [conv EXCEPT
                           ![r].pc = "done",
                           ![r].status = 500,
                           ![r].error = TRUE,
                           ![r].temp_pdf_filename = name]
    /\ UNCHANGED << runVars, cl, nm, ex, environ >>

\* positions between lines 93 and 214 of process_pdf_with_crew
InProcess == { "keyed", "probe", "tool", "crewed", "restore" }

\* lines 93-94
P_SetKey(r) ==
    /\ conv[r].pc = "saved"
    /\ conv' = [conv EXCEPT ![r].pc = "keyed",
                            ![r].current_env_gemini_key = environ]
    /\ environ' = KeyOf(r)
    /\ hist' = [hist EXCEPT
                  !.overlapped = @ \/ \E q \in Requests \ {r} : conv[q].pc \in InProcess]
    /\ UNCHANGED << runVars, cl, nm, ex, disk >>

\* lines 110-113, pdf_tool.py lines 46-48: the constructor writes test.txt
P_ProbeWrite(r) ==
    /\ conv[r].pc = "keyed"
    /\ disk' = WriteFile(disk, ProbePath, r)
    /\ hist' = [hist EXCEPT !.writes = @ \cup { Written(ProbePath, r, "probe") }]
    /\ conv' = [conv EXCEPT ![r].pc = "probe"]
    /\ UNCHANGED << runVars, cl, nm, ex, environ >>

\* pdf_tool.py line 49: os.remove(test_file)
P_ProbeRemove(r) ==
    /\ conv[r].pc = "probe"
    /\ Exists(disk, ProbePath)
    /\ disk' = RemoveFile(disk, ProbePath)
    /\ hist' = [hist EXCEPT !.removes = @ \cup Removed(disk, ProbePath, r)]
    /\ conv' = [conv EXCEPT ![r].pc = "tool"]
    /\ UNCHANGED << runVars, cl, nm, ex, environ >>

\* pdf_tool.py lines 49-53, main.py lines 205-208: test.txt is gone,
\* os.remove raises, the constructor re-raises and the conversion fails
P_ProbeRemoveFails(r) ==
    /\ conv[r].pc = "probe"
    /\ ~Exists(disk, ProbePath)
    /\ conv' = [conv EXCEPT ![r].pc = "restore", ![r].error = TRUE]
    /\ UNCHANGED << runVars, cl, nm, ex, disk, environ, hist >>

\* line 161: the crew runs the tool on the temporary file, which writes the
\* document's images (pdf_tool.py lines 139-140 and 82-92), and returns
\* its final text; lines 176-183 return early on an error text
P_Kickoff(r) ==
    /\ conv[r].pc = "tool"
    /\ \E k \in ConvImageCounts, outcome \in CrewOutcomes :
         LET base == SplitextBase(conv[r].temp_pdf_filename)
             names == { ImageFilename(base, 0, m, ImageExt) : m \in 1..k }
         IN  /\ disk' = { f \in disk : f.path \notin { ImagePath(n) : n \in names } }
                          \cup { [path |-> ImagePath(n), by |-> r] : n \in names }
             /\ hist' = [hist EXCEPT
                           !.writes = @ \cup { Written(ImagePath(n), r, "image") :
                                                 n \in names }]
             /\ conv' = [conv EXCEPT
                           ![r].pc = IF outcome = "error" THEN "restore" ELSE "crewed",
                           ![r].error = (outcome = "error"),
                           ![r].image_urls =
                               IF outcome = "links_kept" THEN names ELSE {}]
    /\ UNCHANGED << runVars, cl, nm, ex, environ >>

\* lines 185-202: write the Markdown file; image_urls are the links found
P_WriteMarkdown(r) ==
    /\ conv[r].pc = "crewed"
    /\ \E uuid \in Uuids \ hist.uuids :
         LET name == MdFilename(conv[r].temp_pdf_filename, uuid)
         IN  /\ disk' = WriteFile(disk, MarkdownPath(name), r)
             /\ hist' = [hist EXCEPT
                           !.uuids = @ \cup {uuid},
                           !.writes = @ \cup { Written(MarkdownPath(name), r, "markdown") }]
             /\ conv' = [conv EXCEPT ![r].pc = "restore", ![r].md_filename = name]
    /\ UNCHANGED << runVars, cl, nm, ex, environ >>

\* lines 209-214
P_RestoreKey(r) ==
    /\ conv[r].pc = "restore"
    /\ environ' = IF conv[r].current_env_gemini_key # Absent
                  THEN conv[r].current_env_gemini_key
                  ELSE IF environ # Absent THEN Absent ELSE environ
    /\ conv' = [conv EXCEPT ![r].pc = "back"]
    /\ UNCHANGED << runVars, cl, nm, ex, disk, hist >>

\* sorted listing of a set of file names, for the cleanup loop
RECURSIVE AsSeq(_)
AsSeq(set) ==
    IF set = {} THEN <<>>
    ELSE LET x == CHOOSE y \in set : TRUE IN << x >> \o AsSeq(set \ {x})

\* lines 244-258: what the finally block is to clean
FilesToClean(c) ==
    IF c.error THEN c.generated_files_to_clean
    ELSE c.generated_files_to_clean \o << MarkdownPath(c.md_filename) >>
             \o [ k \in 1..Cardinality(c.image_urls) |->
                    ImagePath(AsSeq(c.image_urls)[k]) ]

\* lines 244-280: answer 500 on an error, 200 otherwise, and remove every
\* listed file that exists
E_Finish(r) ==
    /\ conv[r].pc = "back"
    /\ LET listed == Range(FilesToClean(conv[r]))
       IN  /\ disk' = { f \in disk : f.path \notin listed }
           /\ hist' = [hist EXCEPT
                         !.removes = @ \cup UNION { Removed(disk, path, r) :
                                                      path \in listed }]
           /\ conv' = [conv EXCEPT
                         ![r].pc = "done",
                         ![r].status = IF conv[r].error THEN 500 ELSE 200,
                         ![r].generated_files_to_clean = FilesToClean(conv[r])]
    /\ UNCHANGED << runVars, cl, nm, ex, environ >>

NextConv ==
    \E r \in Requests :
        \/ E_Reject(r)
        \/ E_SaveUpload(r)
        \/ E_SaveUploadFails(r)
        \/ P_SetKey(r)
        \/ P_ProbeWrite(r)
        \/ P_ProbeRemove(r)
        \/ P_ProbeRemoveFails(r)
        \/ P_Kickoff(r)
        \/ P_WriteMarkdown(r)
        \/ P_RestoreKey(r)
        \/ E_Finish(r)

SpecConv == InitConv /\ [][NextConv]_vars

\* ---- SpecClassify: one request from the crew's answer to the response
\* (main.py lines 161-202 and 242-246)
\* str(e) of an exception that reaches the outer except of _run
ProcessingMsgs ==
    { ExcMsg,
      <<"Failed to load document (PDFium: Data format error).">>,
      <<"Unable to process", " the page tree">>,
      <<"Error", ":", " bad xref table">> }

\* the document-level error strings _run can return (lines 131-134,
\* 148-153 and 235-239)
DocumentErrors ==
    { NotFoundError }
      \cup { PopplerError(pe) : pe \in { m \in PopplerMsgs : PopplerFatal(m) } }
      \cup { ProcessingError(e) : e \in ProcessingMsgs }

\* what _run returns for documents it could process
AssembledDocuments ==
    { Assemble(<< PageDelimiter(0) \o BlankMarker >>),
      Assemble(<< PageBlock(0, << <<"a", "b">> >>),
                  PageBlock(1, << MarkdownLink(pdf_filename_base, 1, 1, ImageExt) >>) >>) }

\* the final content of the pipeline: the tool's result passed on
\* unchanged, or nothing but white space
FinalContents == DocumentErrors \cup AssembledDocuments \cup { <<>>, <<" ", "\n">> }

\* str.lower() on the elements of a text
LowerElement(c) ==
    CASE c = "Error" -> "error"
      [] c = "Unable to process" -> "unable to process"
      [] c = "Unable to get page count" -> "unable to get page count"
      [] c = "No output received from Poppler" -> "no output received from poppler"
      [] OTHER -> c

Lower(text) == [ k \in 1..Len(text) |-> LowerElement(text[k]) ]

\* str.startswith("Error:")
StartsWithErrorColon(text) ==
    /\ Len(text) >= 2
    /\ text[1] = "Error"
    /\ text[2] = ":"

\* line 176
IsErrorContent(final_markdown_content) ==
    \/ StartsWithErrorColon(Strip(final_markdown_content))
    \/ Contains(Lower(final_markdown_content), "unable to process")

EmptyContentError == <<"Crew execution returned empty content.">>

InitClassify ==
    /\ RunUnused
    /\ nm = Unused
    /\ ex = Unused
    /\ conv = Unused
    /\ disk = Unused
    /\ environ = Unused
    /\ hist = Unused
    /\ cl \in [ pc : {"kickoff"}, original_name : OriginalNames,
                final_markdown_content : {<<>>}, error : {<<>>},
                raw_markdown_content : {<<>>}, md_filename : {<<>>},
                markdown_files : {{}}, status : {0}, detail : {<<>>} ]

OtherThanCl == << runVars, nm, ex, conv, disk, environ, hist >>

\* lines 161-172: the crew's final content
C_Kickoff ==
    /\ cl.pc = "kickoff"
    /\ \E content \in FinalContents :
         cl' = [cl EXCEPT !.pc = "classify", !.final_markdown_content = content]
    /\ UNCHANGED OtherThanCl

\* lines 176-179
C_PropagateError ==
    /\ cl.pc = "classify"
    /\ IsErrorContent(cl.final_markdown_content)
    /\ cl' = [cl EXCEPT !.pc = "returned",
                        !.error = Strip(cl.final_markdown_content)]
    /\ UNCHANGED OtherThanCl

\* lines 180-183
C_EmptyContent ==
    /\ cl.pc = "classify"
    /\ ~IsErrorContent(cl.final_markdown_content)
    /\ Strip(cl.final_markdown_content) = <<>>
    /\ cl' = [cl EXCEPT !.pc = "returned", !.error = EmptyContentError]
    /\ UNCHANGED OtherThanCl

\* lines 185-202: the content is taken as Markdown and written to a file
C_WriteMarkdown ==
    /\ cl.pc = "classify"
    /\ ~IsErrorContent(cl.final_markdown_content)
    /\ Strip(cl.final_markdown_content) # <<>>
    /\ \E temp_uuid \in Uuids, md_uuid \in Uuids :
         /\ temp_uuid # md_uuid
         /\ LET name == MdFilename(TempPdfFilename(temp_uuid, cl.original_name \o DotPdf),
                                   md_uuid)
            IN  cl' = [cl EXCEPT !.pc = "returned",
                                 !.raw_markdown_content = cl.final_markdown_content,
                                 !.md_filename = name,
                                 !.markdown_files = @ \cup {name}]
    /\ UNCHANGED OtherThanCl

\* lines 244-246: result.get("error") is truthy
C_RespondError ==
    /\ cl.pc = "returned"
    /\ cl.error # <<>>
    /\ cl' = [cl EXCEPT !.pc = "responded", !.status = 500, !.detail = cl.error]
    /\ UNCHANGED OtherThanCl

\* lines 248-265: the success response
C_RespondSuccess ==
    /\ cl.pc = "returned"
    /\ cl.error = <<>>
    /\ cl' = [cl EXCEPT !.pc = "responded", !.status = 200,
                        !.detail = cl.raw_markdown_content]
    /\ UNCHANGED OtherThanCl

NextClassify ==
    \/ C_Kickoff
    \/ C_PropagateError
    \/ C_EmptyContent
    \/ C_WriteMarkdown
    \/ C_RespondError
    \/ C_RespondSuccess

SpecClassify == InitClassify /\ [][NextClassify]_vars

\* ------------------------------------------------------- claim vocabulary
\* The page whose steps the variables describe: page i while it is being
\* processed, page i - 1 once its block has been appended.
PageDone == pc = "loop" /\ i > 0
DonePage == i - 1

\* the direct text of the page as step 1 of the loop yields it (line 174)
DirectText == Strip(extracted_text_direct)

Forced(idx) == force_ocr_all_pages \/ idx \in Range(force_ocr_pages)

OcrInvoked == trace.rasterCalls > 0 \/ trace.ocrCalls > 0

\* the parts a page with text t contributes before its image entries
TextParts(t) == IF t # <<>> THEN << t >> ELSE <<>>

\* needle occurs in hay as a contiguous run
ContainsSeq(hay, needle) ==
    \E k \in 1..(Len(hay) - Len(needle) + 1) :
        SubSeq(hay, k, k + Len(needle) - 1) = needle

\* the positions at which needle occurs in hay
Occurrences(hay, needle) ==
    { k \in 1..(Len(hay) - Len(needle) + 1) :
        SubSeq(hay, k, k + Len(needle) - 1) = needle }

\* the page's block as the output holds it: the last block appended, which
\* is also the end of the returned document
BlockOfDonePage == full_document_content_parts[i]

EndsWith(s, suffix) ==
    /\ Len(suffix) <= Len(s)
    /\ SubSeq(s, Len(s) - Len(suffix) + 1, Len(s)) = suffix

\* a page has gone through all its steps (and the document may have been
\* returned since)
PageFinished ==
    /\ i > 0
    /\ pc = "loop" \/ (pc = "done" /\ returned = "assembled")

InOutput(block) ==
    /\ BlockOfDonePage = block
    /\ pc = "done" => EndsWith(result, block)

\* ------------------------------------------------------------------ C1
\* C1: once step 2 has run for page i, perform_ocr_on_this_page is true
\* exactly if force_ocr_all_pages is set, or i is in force_ocr_pages, or
\* the direct text has fewer than 50 characters and the text-object query
\* reported at least one object (or, the query being unsupported, the
\* direct text is empty).
ClaimedDecision(idx) ==
    \/ force_ocr_all_pages
    \/ idx \in Range(force_ocr_pages)
    \/ /\ Len(DirectText) < MIN_TEXT_LENGTH_FOR_NO_OCR
       /\ \/ trace.objQuery = "ok" /\ trace.objCount >= 1
          \/ trace.objQuery = "unsupported" /\ DirectText = <<>>

\* C1: the decision taken for page i is exactly the claimed rule
C1_DecisionRule ==
    pc = "ocr" => (perform_ocr_on_this_page = ClaimedDecision(i))

\* a page with whitespace-only text, not forced, the query unsupported: OCR
C1_Witness ==
    /\ pc = "ocr"
    /\ ~Forced(i)
    /\ trace.objQuery = "unsupported"
    /\ extracted_text_direct # <<>>
    /\ perform_ocr_on_this_page

\* ------------------------------------------------------------------ C2
\* C2: a page whose direct text has at least 50 characters and that no
\* override forces into OCR is neither rasterized nor recognized, and its
\* text in the output is exactly its direct text.
C2_LongTextUntouched ==
    (PageFinished /\ Len(DirectText) >= MIN_TEXT_LENGTH_FOR_NO_OCR /\ ~Forced(DonePage))
        => /\ ~OcrInvoked
           /\ page_text_content = DirectText
           /\ InOutput(PageBlock(DonePage, << DirectText >> \o image_links))

C2_Witness ==
    /\ pc = "done"
    /\ returned = "assembled"
    /\ i = 2
    /\ Len(DirectText) = MIN_TEXT_LENGTH_FOR_NO_OCR
    /\ ~Forced(DonePage)

\* ------------------------------------------------------------------ C3
\* C3 as claimed: a page whose direct text has fewer than 50 characters and
\* whose text-object query reports zero objects gets no OCR and has empty
\* text in the output, with no error marker.
C3_Claimed ==
    (PageFinished /\ Len(DirectText) < MIN_TEXT_LENGTH_FOR_NO_OCR
        /\ trace.objQuery = "ok" /\ trace.objCount = 0)
        => /\ ~OcrInvoked
           /\ page_text_content = <<>>
           /\ InOutput(PageBlock(DonePage, image_links))

\* C3 amended: such a page gets no OCR and its text in the output is
\* exactly its direct text (empty only when the direct text is empty),
\* with no error marker.
C3_ShortTextNoObjects ==
    (PageFinished /\ Len(DirectText) < MIN_TEXT_LENGTH_FOR_NO_OCR
        /\ trace.objQuery = "ok" /\ trace.objCount = 0)
        => /\ ~OcrInvoked
           /\ page_text_content = DirectText
           /\ InOutput(PageBlock(DonePage, TextParts(DirectText) \o image_links))

C3_Witness ==
    /\ PageFinished
    /\ trace.objQuery = "ok"
    /\ trace.objCount = 0
    /\ DirectText # <<>>
    /\ Len(DirectText) < MIN_TEXT_LENGTH_FOR_NO_OCR

\* ------------------------------------------------------------------ C4
\* the text image_to_string returned for the page, as line 205 holds it
OcrText == Strip(trace.ocrRaw)

OcrReturned == trace.ocrOutcome = "ocr_ok"

\* C4 as claimed: on a page where OCR ran and the direct text had fewer
\* than 50 characters, the final text equals the OCR text.
C4_Claimed ==
    (PageFinished /\ OcrReturned /\ Len(DirectText) < MIN_TEXT_LENGTH_FOR_NO_OCR)
        => page_text_content = OcrText

\* C4 amended: on a page where OCR ran and returned non-empty text and the
\* direct text had fewer than 50 characters, the final text equals the OCR
\* text exactly (the direct text is replaced, not concatenated).
C4_OcrReplacesShortText ==
    (PageFinished /\ OcrReturned /\ OcrText # <<>>
        /\ Len(DirectText) < MIN_TEXT_LENGTH_FOR_NO_OCR)
        => /\ page_text_content = OcrText
           /\ InOutput(PageBlock(DonePage, << OcrText >> \o image_links))

C4_Witness ==
    /\ PageFinished
    /\ OcrReturned
    /\ OcrText # <<>>
    /\ DirectText # <<>>
    /\ Len(DirectText) < MIN_TEXT_LENGTH_FOR_NO_OCR

\* ------------------------------------------------------------------ C5
\* C5 as claimed: on a page forced into OCR whose direct text had at least
\* 50 characters, the final text is the direct text, the separator line and
\* the OCR text.
C5_Claimed ==
    (PageFinished /\ OcrReturned /\ Forced(DonePage)
        /\ Len(DirectText) >= MIN_TEXT_LENGTH_FOR_NO_OCR)
        => page_text_content = DirectText \o <<"\n\n--- OCR Text ---\n">> \o OcrText

\* C5 amended: ... and on which OCR returned non-empty text, the final text
\* is the direct text, the separator line and the OCR text.
C5_OcrAppendedToLongText ==
    (PageFinished /\ OcrReturned /\ OcrText # <<>> /\ Forced(DonePage)
        /\ Len(DirectText) >= MIN_TEXT_LENGTH_FOR_NO_OCR)
        => /\ page_text_content = DirectText \o <<"\n\n--- OCR Text ---\n">> \o OcrText
           /\ InOutput(PageBlock(DonePage, << page_text_content >> \o image_links))

C5_Witness ==
    /\ PageFinished
    /\ OcrReturned
    /\ OcrText # <<>>
    /\ ~force_ocr_all_pages
    /\ DonePage \in Range(force_ocr_pages)
    /\ Len(DirectText) >= MIN_TEXT_LENGTH_FOR_NO_OCR

\* ------------------------------------------------------------------ C6
DelimiterPositions(k) == Occurrences(result, PageDelimiter(k - 1))

DelimiterCount == Cardinality({ p \in 1..Len(result) : result[p] = "\n--- Page " })

\* C6: a returned document of n pages holds exactly one "--- Page k ---"
\* delimiter for each k in 1..n, the delimiters in increasing order of k,
\* and none for any other page: no page is left out, blank or not.
C6_DelimitersInPageOrder ==
    (pc = "done" /\ returned = "assembled")
        => /\ \A k \in 1..n_pages : Cardinality(DelimiterPositions(k)) = 1
           /\ \A k \in 1..(n_pages - 1) :
                \A p \in DelimiterPositions(k), q \in DelimiterPositions(k + 1) : p < q
           /\ DelimiterCount = n_pages

\* a document of two pages, the first of them blank, has been returned
C6_Witness ==
    /\ pc = "done"
    /\ returned = "assembled"
    /\ n_pages = 2
    /\ full_document_content_parts[1] = PageDelimiter(0) \o BlankMarker

\* ------------------------------------------------------------------ C7
\* a step of the current page has failed
PageFailure ==
    \/ trace.textRaised
    \/ trace.objQuery = "raised"
    \/ trace.ocrOutcome \in {"raster_raise", "ocr_raise"}
    \/ trace.imgFailed

\* C7 as claimed: a failure confined to one page or one image never aborts
\* the run: _run goes on and returns the assembled document of all pages.
C7_Claimed ==
    (pc = "done" /\ PageFailure)
        => /\ returned = "assembled"
           /\ Len(full_document_content_parts) = n_pages

\* ------------------------------------------------------------------ C8
DocumentLevelFailure == returned \in {"not_found", "poppler", "exception"}

\* C8: after a document-level failure the value returned is one error
\* message and holds none of the page content assembled before the failure.
C8_ErrorCarriesNoContent ==
    (pc = "done" /\ DocumentLevelFailure)
        => /\ result[1] = "Error"
           /\ result = CASE returned = "not_found" -> NotFoundError
                         [] returned = "poppler"   -> PopplerError(popplerMsg)
                         [] returned = "exception" -> ProcessingError(ExcMsg)
           /\ DelimiterCount = 0
           /\ \A k \in 1..Len(full_document_content_parts) :
                ~ContainsSeq(result, full_document_content_parts[k])

\* the run failed on a later page, after a page with text had been assembled
C8_Witness ==
    /\ pc = "done"
    /\ returned = "exception"
    /\ Len(full_document_content_parts) >= 1
    /\ Len(full_document_content_parts[1]) > MIN_TEXT_LENGTH_FOR_NO_OCR

\* ------------------------------------------------------------------ C9
NoPageProcessed ==
    /\ libOpened = {}
    /\ trace = NoTrace
    /\ full_document_content_parts = <<>>
    /\ imgDir = InitialDir

\* C9 as claimed: whenever the rendering-dependency check fails, _run
\* returns one error string and processes no page.
C9_Claimed ==
    popplerMsg # <<>>
        => /\ pc = "done"
           /\ returned = "poppler"
           /\ NoPageProcessed

\* C9 amended: whenever the check fails with a message that contains
\* "Unable to get page count" or "No output received from Poppler", _run
\* returns one "Error:" string that carries the message, and processes no
\* page.
C9_FatalPopplerShortCircuits ==
    (popplerMsg # <<>> /\ (Contains(popplerMsg, "Unable to get page count")
                           \/ Contains(popplerMsg, "No output received from Poppler")))
        => /\ pc = "done"
           /\ returned = "poppler"
           /\ SubSeq(result, 1, 2) = <<"Error", ":">>
           /\ EndsWith(result, popplerMsg)
           /\ NoPageProcessed

C9_Witness ==
    /\ pc = "done"
    /\ returned = "poppler"
    /\ Contains(popplerMsg, "No output received from Poppler")

\* ----------------------------------------------------------------- C10
\* C10: a run on a path that does not exist returns the not-found error,
\* leaves the image output directory as it was and opens no PDF library.
C10_NotFoundTouchesNothing ==
    ~fileExists
        => /\ imgDir = InitialDir
           /\ libOpened = {}
           /\ trace = NoTrace
           /\ pc = "done" => (returned = "not_found" /\ result = NotFoundError)

C10_Witness ==
    /\ pc = "done"
    /\ returned = "not_found"
    /\ imgDir # {}

\* ----------------------------------------------------------------- C11
SameImage == /\ nm.a.page_index = nm.b.page_index
             /\ nm.a.image_index = nm.b.image_index

NameForm(in) ==
    <<"d", "o", "c">> \o <<"_", "p", "a", "g", "e">> \o Str(in.page_index + 1)
        \o <<"_", "i", "m", "g">> \o Str(in.image_index) \o <<".">> \o in.image_ext

\* C11: the file name of an image is {base}_page{N}_img{M}.{ext} with N the
\* page index plus one and M the image index counted from one; the same
\* inputs give the same name, and two images of one document that differ in
\* page or image index get different names, whatever their extensions, so
\* writing the second never replaces the first.
C11_FilenamesDistinct ==
    nm.pc = "done"
        => /\ nm.image_filename_a = NameForm(nm.a)
           /\ nm.image_filename_b = NameForm(nm.b)
           /\ nm.a = nm.b => nm.image_filename_a = nm.image_filename_b
           /\ ~SameImage => /\ nm.image_filename_a # nm.image_filename_b
                            /\ ~nm.overwritten
                            /\ Cardinality(nm.written) = 2

\* image 11 of page 1 and image 1 of page 11 have been named and written
C11_Witness ==
    /\ nm.pc = "done"
    /\ nm.a.page_index = 0 /\ nm.a.image_index = 11
    /\ nm.b.page_index = 10 /\ nm.b.image_index = 1
    /\ nm.a.image_ext = nm.b.image_ext
    /\ Cardinality(nm.written) = 2

\* ----------------------------------------------------------------- C12
\* what the call met, in the form the page loop of _run uses
ExMet == [page_fail |-> ex.page_fail, listing |-> ex.outcomes]

ListingReturned == ex.pc = "returned" /\ ~ex.page_fail

\* every listed image is attempted once, in listing order, whichever of
\* them fail, and the one-call summary used by the page loop agrees with the
\* step-by-step extractor
AllImagesAttempted ==
    ex.pc = "returned"
        => /\ ~ex.page_fail => ex.attempted = [ j \in 1..ex.image_list |-> j ]
           /\ ex.returned = ExtractedLinks(pdf_filename_base, ex.page_index, ExMet)
           /\ ex.saved = ExtractedFiles(pdf_filename_base, ex.page_index, ExMet)

\* C12 as claimed: for a page that lists k images the extractor attempts
\* all k and returns exactly k entries in listing order, entry j being the
\* Markdown link of image j or the bracketed error note of image j.
C12_Claimed ==
    ListingReturned
        => /\ ex.attempted = [ j \in 1..ex.image_list |-> j ]
           /\ Len(ex.returned) = ex.image_list
           /\ \A j \in 1..Len(ex.returned) :
                \/ ex.returned[j] = MarkdownLink(pdf_filename_base, ex.page_index,
                                                 j, ImageExt)
                \/ ex.returned[j] = ImageErrorNote(ex.page_index, j, ExcMsg)

\* ----------------------------------------------------------------- C13
\* the page the trace describes: page i until its block is appended
TracedPage == IF pc = "loop" \/ pc = "done" THEN i - 1 ELSE i

AfterOcrStep == pc = "images" \/ PageFinished

PageFailNote(idx) ==
    <<"\n[Error in image extraction for page ">> \o Str(idx + 1) \o <<": ">>
        \o ExcMsg \o <<"]\n">>

\* C13: when image extraction fails at the page level the extractor returns
\* exactly one bracketed note and the run is not aborted; the page's block
\* holds the text already obtained followed by the note, and the pages
\* after it get their blocks too.
C13_PageLevelImageFailure ==
    /\ (PageFinished /\ trace.imgPageFail)
         => /\ image_links = << PageFailNote(DonePage) >>
            /\ returned # "exception"
            /\ InOutput(PageDelimiter(DonePage) \o <<"\n">>
                          \o Join(<<"\n">>, TextParts(page_text_content)
                                              \o << PageFailNote(DonePage) >>))
    /\ \A k \in 1..Len(full_document_content_parts) :
         (EndsWith(full_document_content_parts[k], PageFailNote(k - 1))
             /\ pc = "done" /\ returned = "assembled")
           => Len(full_document_content_parts) = n_pages

\* the first of two pages had text and a page-level image failure, and the
\* second page has been processed after it
C13_Witness ==
    /\ PageFinished
    /\ i = 2
    /\ Len(full_document_content_parts[1]) > MIN_TEXT_LENGTH_FOR_NO_OCR
    /\ EndsWith(full_document_content_parts[1], PageFailNote(0))

\* ----------------------------------------------------------------- C14
OcrRaised == trace.ocrOutcome \in {"raster_raise", "ocr_raise"}

OcrErrorText(idx) ==
    <<"\n[OCR error on page ">> \o Str(idx + 1) \o <<": ">> \o ExcMsg \o <<"]">>

\* C14: when the rasterizer or the OCR engine raises, the page keeps its
\* direct text unchanged as the prefix of its final text, the note
\* "[OCR error on page N: <message>]" is appended, and the page goes on to
\* image extraction.
C14_OcrErrorKeepsText ==
    (AfterOcrStep /\ OcrRaised)
        => /\ page_text_content = DirectText \o OcrErrorText(TracedPage)
           /\ returned # "exception"
           /\ pc = "images" => ENABLED ExtractImages
           /\ PageFinished =>
                /\ trace.imgCalls = 1
                /\ InOutput(PageBlock(DonePage, << page_text_content >> \o image_links))

C14_Witness ==
    /\ PageFinished
    /\ trace.ocrOutcome = "ocr_raise"
    /\ DirectText # <<>>
    /\ image_links # <<>>

\* ----------------------------------------------------------------- C15
OutputKinds == { "upload", "image", "markdown" }

\* the names of the temporary uploads, the images and the Markdown files of
\* two requests differ, and none of these files is removed by the other
\* request
OutputNamesDistinct ==
    /\ \A w1 \in hist.writes : \A w2 \in hist.writes :
         (w1.by # w2.by /\ w1.kind \in OutputKinds /\ w2.kind \in OutputKinds)
            => w1.path # w2.path
    /\ \A d \in hist.removes : d.path # ProbePath => d.of = d.by

\* C15 as claimed: two conversions of same-named files that overlap never
\* write to the same path, and neither overwrites or deletes a file the
\* other has written.
C15_Claimed ==
    /\ \A w1 \in hist.writes : \A w2 \in hist.writes :
         w1.by # w2.by => w1.path # w2.path
    /\ \A d \in hist.removes : d.of = d.by

\* ----------------------------------------------------------------- C16
Completed(r) == conv[r].pc = "done"

\* C16 as claimed: an image file written by the extractor during a request
\* is still on disk, as written, when the request has completed, whatever
\* its outcome.
C16_Claimed ==
    \A r \in Requests :
        Completed(r)
            => \A w \in hist.writes :
                 (w.by = r /\ w.kind = "image")
                    => [path |-> w.path, by |-> r] \in disk

\* ----------------------------------------------------------------- C17
AllFinished == \A r \in Requests : conv[r].pc \notin InProcess \cup {"saved"}

\* executions that do not overlap leave the variable as they found it
KeyRestoredWithoutOverlap ==
    (AllFinished /\ ~hist.overlapped) => environ = hist.env0

\* C17 as claimed: once every execution of process_pdf_with_crew has
\* finished, in any interleaving, GEMINI_API_KEY has the value (or the
\* absence) it had before the first began, and no caller's key is left.
C17_Claimed ==
    AllFinished
        => /\ environ = hist.env0
           /\ \A r \in Requests : environ # KeyOf(r)

\* ----------------------------------------------------------------- C18
StepOrder ==
    { <<"start", "poppler">>, <<"start", "done">>, <<"poppler", "open">>,
      <<"poppler", "done">>, <<"open", "loop">>, <<"open", "done">>,
      <<"loop", "decide">>, <<"decide", "ocr">>, <<"ocr", "images">>,
      <<"images", "loop">>, <<"loop", "done">>, <<"decide", "done">> }

\* the steps of a page that does run follow the fixed order: no step is
\* repeated, none goes back, the rasterizer and the OCR engine are invoked at
\* most once and only if OCR was decided, and the page index moves on, by
\* one, only when the image extraction of the page has returned
StepOrderKept ==
    /\ << pc, pc' >> \in StepOrder
    /\ i' = IF pc = "images" THEN i + 1 ELSE i
    /\ trace'.textCalls <= 1
    /\ trace'.rasterCalls <= 1
    /\ trace'.ocrCalls <= 1
    /\ trace'.imgCalls <= 1
    /\ trace'.rasterCalls = 1 => perform_ocr_on_this_page'
    /\ pc' = "images" => trace'.imgCalls = 0
    /\ (pc = "images" /\ pc' = "loop") =>
          (trace.imgCalls = 0 /\ trace'.imgCalls = 1)
    /\ pc' = "decide" => trace' = [NoTrace EXCEPT !.textCalls = 1]

NoBackwardStep == [][StepOrderKept]_vars

\* C18 as claimed: each page goes through extract text, decide OCR, run OCR,
\* extract images in that order with no step repeated and none going back,
\* and for every page that _run starts the image extractor is invoked
\* exactly once before the run moves on or ends.
C18_Claimed ==
    [][ /\ StepOrderKept
        /\ (pc' \in {"loop", "done"} /\ trace'.textCalls = 1)
              => trace'.imgCalls = 1 ]_vars

\* ----------------------------------------------------------------- C19
\* C19: the block of a page is the delimiter followed by the marker
\* "(Blank or no extractable content)" exactly when the final text is empty
\* and the extractor returned no entries; otherwise it is the delimiter, the
\* final text if not empty, and the image entries in the order returned.
C19_BlockLayout ==
    PageFinished
        => InOutput(IF page_text_content = <<>> /\ image_links = <<>>
                    THEN <<"\n--- Page ">> \o Str(DonePage + 1) \o <<" ---">>
                           \o <<" (Blank or no extractable content)">>
                    ELSE <<"\n--- Page ">> \o Str(DonePage + 1) \o <<" ---">> \o <<"\n">>
                           \o Join(<<"\n">>, TextParts(page_text_content) \o image_links))

\* a page without text but with image entries: not blank
C19_Witness ==
    /\ PageFinished
    /\ page_text_content = <<>>
    /\ Len(image_links) = 2

\* ----------------------------------------------------------------- C20
NoImageText(idx) ==
    <<"\n[OCR attempted but no image returned for page ">> \o Str(idx + 1) \o <<"]">>

\* C20: when the rasterizer returns no image the OCR engine is not invoked,
\* the direct text is left as it is and exactly one note "[OCR attempted but
\* no image returned for page N]" follows it.
C20_NoImageNote ==
    (AfterOcrStep /\ trace.ocrOutcome = "no_image")
        => /\ trace.rasterCalls = 1
           /\ trace.ocrCalls = 0
           /\ page_text_content = DirectText \o NoImageText(TracedPage)
           /\ Cardinality(Occurrences(page_text_content, NoImageText(TracedPage))) = 1

C20_Witness ==
    /\ PageFinished
    /\ trace.ocrOutcome = "no_image"
    /\ DirectText # <<>>

\* ----------------------------------------------------------------- C21
ToolErrorReturned == cl.final_markdown_content \in DocumentErrors

\* every error string a run of _run returns (Spec) is one of DocumentErrors
RunErrorsAreDocumentErrors ==
    (pc = "done" /\ DocumentLevelFailure) => result \in DocumentErrors

\* the two error strings of _run that start with "Error:" are classified
\* as errors
ColonErrorsClassified ==
    (cl.pc = "responded" /\ ToolErrorReturned
        /\ StartsWithErrorColon(cl.final_markdown_content))
        => cl.status = 500 /\ cl.markdown_files = {}

\* C21 as claimed: a document-level error string of _run that arrives
\* unchanged as the final content is classified as an error: the error
\* field is set, no Markdown file is written and the endpoint answers 500.
C21_Claimed ==
    (cl.pc \in {"returned", "responded"} /\ ToolErrorReturned)
        => /\ cl.error # <<>>
           /\ cl.markdown_files = {}
           /\ cl.pc = "responded" => cl.status = 500

\* ----------------------------------------------------------------- C22
Handled(r) == Completed(r) /\ conv[r].status # 400

UploadOnDisk(r) == Exists(disk, TempPath(conv[r].temp_pdf_filename))

\* a temporary upload that was listed for cleanup is gone when the request
\* has been handled
ListedUploadRemoved ==
    \A r \in Requests :
        (Handled(r) /\ conv[r].generated_files_to_clean # <<>>) => ~UploadOnDisk(r)

\* C22 as claimed: when the endpoint has finished a request that passed
\* validation, with any outcome, the request's temporary upload file is no
\* longer in the temp uploads directory.
C22_Claimed ==
    \A r \in Requests : Handled(r) => ~UploadOnDisk(r)

====
